---- MODULE Spec2Model ----
(***************************************************************************)
(* Model of the C-linkage bridge functions of src/wrappers.cc:             *)
(* LLVMGetOrInsertFunction, LLVMGetOrInsertGlobal, LLVMVerifyFunction2,    *)
(* LLVMVersionMajor and LLVMVersionMinor.                                  *)
(*                                                                         *)
(* The bridge calls into the LLVM library, whose code is not part of the   *)
(* repository.  The three library entry points the bridge uses             *)
(* (Module::getOrInsertFunction, Module::getOrInsertGlobal, verifyFunction)*)
(* are modelled from section 4.1 of the specification.  What that section  *)
(* leaves to the library (the value returned when a symbol of the name     *)
(* exists with another type) is a nondeterministic choice.                 *)
(***************************************************************************)
EXTENDS Naturals, Sequences, FiniteSets

VARIABLES decls, nextHandle, stderr, heap, pc, frame, terminated, hist

vars == <<decls, nextHandle, stderr, heap, pc, frame, terminated, hist>>

(* ------------------------------ bounds --------------------------------- *)

\* Number of bridge calls the caller makes in one process lifetime.
MaxCalls == 2

\* Longest diagnostic text the verifier produces.
MaxDiagLen == 2

(* ------------------------------ inputs --------------------------------- *)

Modules == {"M1", "M2"}

Names == {"foo", "bar"}

FunctionTypes == {"void(i32)", "i32(i32)"}

GlobalTypes == {"i32", "i64"}

\* LLVMVerifierFailureAction of llvm-c/Analysis.h
Actions == {"LLVMAbortProcessAction", "LLVMPrintMessageAction", "LLVMReturnStatusAction"}

\* Diagnostic texts: non-empty character strings without a NUL character.
Diags == {[i \in 1..n |-> "d"] : n \in 1..MaxDiagLen}

\* A function under verification, abstracted to what the verifier finds in
\* its body: <<>> for a structurally valid function.
Functions == {[violations |-> v] : v \in {<<>>} \cup Diags}

\* "LLVM ERROR: Broken function found, compilation aborted!"
FatalText == <<"F">>

\* Compile-time version macros of the linked library build (llvm/Config);
\* their values are fixed by the build, not by the bridge.
LLVM_VERSION_MAJOR == "LLVM_VERSION_MAJOR"

LLVM_VERSION_MINOR == "LLVM_VERSION_MINOR"

(* ----------------------- handles and conversions ----------------------- *)

\* wrap / unwrap are pointer casts between the opaque C handle and the C++
\* object: the handle is the object's address.
wrap(v) == v

unwrap(h) == h

\* A value handle: the address h of a declaration, or a constant cast
\* expression over it.
Handle(h) == [h |-> h, cast |-> "none"]

BitCast(h, ty) == [h |-> h, cast |-> ty]

Lookup(ds, M, kind, Name) ==
    {d \in ds : d.mod = M /\ d.kind = kind /\ d.name = Name}

\* The NUL character that ends a C string.
NUL == "NUL"

\* std::string::c_str() read as a C string: the characters before the first NUL.
RECURSIVE CStr(_)
CStr(s) ==
    IF s = <<>> \/ Head(s) = NUL THEN <<>> ELSE <<Head(s)>> \o CStr(Tail(s))

strdup(s) == CStr(s)

(* --------------------------- library model ----------------------------- *)

\* Lookup-or-create of a declaration: the set of outcomes
\* [decls, next, val] the library call may have.
GetOrInsert(M, kind, Name, Ty) ==
    LET ex == Lookup(decls, M, kind, Name) IN
    IF ex = {}
    THEN {[decls |-> decls \cup {[h |-> nextHandle, mod |-> M, kind |-> kind,
                                   name |-> Name, ty |-> Ty]},
           next |-> nextHandle + 1,
           val |-> Handle(nextHandle)]}
    ELSE LET d == CHOOSE x \in ex : TRUE IN
         IF d.ty = Ty
         THEN {[decls |-> decls, next |-> nextHandle, val |-> Handle(d.h)]}
         ELSE {[decls |-> decls, next |-> nextHandle, val |-> Handle(d.h)],
               [decls |-> decls, next |-> nextHandle, val |-> BitCast(d.h, Ty)]}

Module_getOrInsertFunction(M, Name, Ty) == GetOrInsert(M, "function", Name, Ty)

Module_getOrInsertGlobal(M, Name, Ty) == GetOrInsert(M, "global", Name, Ty)

\* The structural verifier: reports whether F is broken and writes its
\* findings to the stream OS when one is given.
verifyFunction(F, OS) ==
    [broken |-> F.violations # <<>>,
     out |-> IF OS = "null" THEN <<>> ELSE F.violations]

(* ------------------------------- state --------------------------------- *)

NoFrame == [active |-> FALSE]

Init ==
    /\ decls = {}
    /\ nextHandle = 0
    /\ stderr = <<>>
    /\ heap = <<>>
    /\ pc = "idle"
    /\ frame = NoFrame
    /\ terminated = FALSE
    /\ hist = <<>>

CanCall == pc = "idle" /\ ~terminated /\ Len(hist) < MaxCalls

(* ------------------------------ actions -------------------------------- *)


\* Mutant: the function bridge forwards to the global-variable lookup.
ForwardFunction_ToGlobal(M, Name, FunctionTy) ==
    Module_getOrInsertGlobal(unwrap(M), Name, unwrap(FunctionTy))

\* Lines 45-46: the library call the function bridge forwards to.
ForwardFunction(M, Name, FunctionTy) ==
    Module_getOrInsertFunction(unwrap(M), Name, unwrap(FunctionTy))

LLVMGetOrInsertFunction ==
    /\ CanCall
    /\ \E M \in Modules, Name \in Names, FunctionTy \in FunctionTypes :
         \E o \in ForwardFunction(M, Name, FunctionTy) :
            /\ decls' = o.decls
            /\ nextHandle' = o.next
            /\ hist' = Append(hist, [op |-> "LLVMGetOrInsertFunction", mod |-> M,
                                     name |-> Name, ty |-> FunctionTy,
                                     ret |-> wrap(o.val)])
    /\ UNCHANGED <<stderr, heap, pc, frame, terminated>>


\* Mutant: the global bridge forwards to the function lookup.
ForwardGlobal_ToFunction(M, Name, Ty) ==
    Module_getOrInsertFunction(unwrap(M), Name, unwrap(Ty))

\* Line 52: the library call the global bridge forwards to.
ForwardGlobal(M, Name, Ty) ==
    Module_getOrInsertGlobal(unwrap(M), Name, unwrap(Ty))

LLVMGetOrInsertGlobal ==
    /\ CanCall
    /\ \E M \in Modules, Name \in Names, Ty \in GlobalTypes :
         \E o \in ForwardGlobal(M, Name, Ty) :
            /\ decls' = o.decls
            /\ nextHandle' = o.next
            /\ hist' = Append(hist, [op |-> "LLVMGetOrInsertGlobal", mod |-> M,
                                     name |-> Name, ty |-> Ty,
                                     ret |-> wrap(o.val)])
    /\ UNCHANGED <<stderr, heap, pc, frame, terminated>>

LLVMVersionMajor ==
    /\ CanCall
    /\ hist' = Append(hist, [op |-> "LLVMVersionMajor", ret |-> LLVM_VERSION_MAJOR])
    /\ UNCHANGED <<decls, nextHandle, stderr, heap, pc, frame, terminated>>

LLVMVersionMinor ==
    /\ CanCall
    /\ hist' = Append(hist, [op |-> "LLVMVersionMinor", ret |-> LLVM_VERSION_MINOR])
    /\ UNCHANGED <<decls, nextHandle, stderr, heap, pc, frame, terminated>>


\* Mutant: only the print-message action selects stderr.
DebugStream_PrintOnly(Action) ==
    IF Action = "LLVMPrintMessageAction" THEN "errs" ELSE "null"

\* Line 58: the debug stream is stderr unless the action is return-status.
DebugStream(Action) ==
    IF Action # "LLVMReturnStatusAction" THEN "errs" ELSE "null"

\* Mutant: the verifier always writes to the debug stream.
VerifierStream_AlwaysDebug(OutMessages, DebugOS) == DebugOS

\* Line 62: the verifier writes to the message stream when a buffer was
\* requested, otherwise to the debug stream.
VerifierStream(OutMessages, DebugOS) ==
    IF OutMessages THEN "MsgsOS" ELSE DebugOS

\* Mutant: the collected messages are never copied to stderr.
ShouldDuplicate_Never(DebugOS, OutMessages) == FALSE

\* Line 65: if (DebugOS && OutMessages)
ShouldDuplicate(DebugOS, OutMessages) == DebugOS # "null" /\ OutMessages

\* Mutant: the abort tests the wrong action.
ShouldAbort_WrongAction(Action, Result) ==
    Action = "LLVMPrintMessageAction" /\ Result

\* Mutant: the abort does not test the action.
ShouldAbort_AnyAction(Action, Result) == Result

\* Line 68: if (Action == LLVMAbortProcessAction && Result)
ShouldAbort(Action, Result) == Action = "LLVMAbortProcessAction" /\ Result

\* Mutant: the result is returned inverted.
ReturnValue_Inverted(Result) == ~Result

\* Line 74: return Result
ReturnValue(Result) == Result

\* Mutant: the copy is made whether or not a buffer was requested.
ShouldStore_Always(OutMessages) == TRUE

\* Line 71: if (OutMessages)
ShouldStore(OutMessages) == OutMessages

\* Lines 58-62: choose the debug stream, run the verifier.
VerifyRun ==
    /\ CanCall
    /\ \E Fn \in Functions, Action \in Actions, OutMessages \in BOOLEAN :
         LET DebugOS == DebugStream(Action)
             OS == VerifierStream(OutMessages, DebugOS)
             r == verifyFunction(unwrap(Fn), OS)
         IN /\ frame' = [active |-> TRUE, Fn |-> Fn, Action |-> Action,
                         OutMessages |-> OutMessages, DebugOS |-> DebugOS,
                         Messages |-> IF OS = "MsgsOS" THEN r.out ELSE <<>>,
                         Result |-> r.broken, errStart |-> Len(stderr),
                         buf |-> 0]
            /\ stderr' = IF OS = "errs" THEN stderr \o r.out ELSE stderr
    /\ pc' = "L65"
    /\ UNCHANGED <<decls, nextHandle, heap, terminated, hist>>

\* Lines 65-66: duplicate the output to stderr.
VerifyDuplicate ==
    /\ pc = "L65"
    /\ stderr' = IF ShouldDuplicate(frame.DebugOS, frame.OutMessages)
                 THEN stderr \o frame.Messages
                 ELSE stderr
    /\ pc' = "L68"
    /\ UNCHANGED <<decls, nextHandle, heap, frame, terminated, hist>>

\* Lines 68-69: report_fatal_error prints its reason and exits the process.
VerifyAbort ==
    /\ pc = "L68"
    /\ IF ShouldAbort(frame.Action, frame.Result)
       THEN /\ stderr' = stderr \o FatalText
            /\ terminated' = TRUE
            /\ pc' = "exited"
       ELSE /\ pc' = "L71"
            /\ UNCHANGED <<stderr, terminated>>
    /\ UNCHANGED <<decls, nextHandle, heap, frame, hist>>

\* Lines 71-72: hand a copy of the messages to the caller.
VerifyStore ==
    /\ pc = "L71"
    /\ IF ShouldStore(frame.OutMessages)
       THEN /\ heap' = Append(heap, strdup(frame.Messages))
            /\ frame' = [frame EXCEPT !.buf = Len(heap) + 1]
       ELSE UNCHANGED <<heap, frame>>
    /\ pc' = "L74"
    /\ UNCHANGED <<decls, nextHandle, stderr, terminated, hist>>

\* Line 74: return Result; the locals go out of scope.
VerifyReturn ==
    /\ pc = "L74"
    /\ hist' = Append(hist, [op |-> "LLVMVerifyFunction2", Fn |-> frame.Fn,
                             Action |-> frame.Action,
                             OutMessages |-> frame.OutMessages,
                             ret |-> ReturnValue(frame.Result),
                             buf |-> frame.buf,
                             err |-> SubSeq(stderr, frame.errStart + 1, Len(stderr))])
    /\ frame' = NoFrame
    /\ pc' = "idle"
    /\ UNCHANGED <<decls, nextHandle, stderr, heap, terminated>>

Next ==
    \/ LLVMGetOrInsertFunction
    \/ LLVMGetOrInsertGlobal
    \/ LLVMVersionMajor
    \/ LLVMVersionMinor
    \/ VerifyRun
    \/ VerifyDuplicate
    \/ VerifyAbort
    \/ VerifyStore
    \/ VerifyReturn

Spec == Init /\ [][Next]_vars

\* Sequential execution of the handler: a call that has started runs on.
VerifyStep == VerifyDuplicate \/ VerifyAbort \/ VerifyStore \/ VerifyReturn

FairSpec == Spec /\ WF_vars(VerifyStep)

(* ------------------------- auxiliary definitions ----------------------- *)

Calls(op) == {i \in DOMAIN hist : hist[i].op = op}

FnCalls == Calls("LLVMGetOrInsertFunction")

GlobalCalls == Calls("LLVMGetOrInsertGlobal")

VerifyCalls == Calls("LLVMVerifyFunction2")

Broken(F) == F.violations # <<>>

\* What the running verify call has written to stderr so far.
Emitted == SubSeq(stderr, frame.errStart + 1, Len(stderr))

IsPrefix(p, s) == Len(p) <= Len(s) /\ SubSeq(s, 1, Len(p)) = p

\* The first call in hist of operation op on (mod, name).
IsFirst(i, cs) ==
    \A j \in cs : (hist[j].mod = hist[i].mod /\ hist[j].name = hist[i].name) => i <= j

\* Lookup-or-create idempotence of operation cs creating declarations of kind.
Idempotent(cs, kind) ==
    /\ \A i \in cs :
         LET e == hist[i]
             ds == Lookup(decls, e.mod, kind, e.name)
         IN /\ Cardinality(ds) = 1
            /\ IsFirst(i, cs) =>
                 /\ \A d \in ds : d.ty = e.ty /\ e.ret = Handle(d.h)
                 /\ \A j \in cs :
                      (hist[j].mod = e.mod /\ hist[j].name = e.name /\ hist[j].ty = e.ty)
                         => hist[j].ret = e.ret
    /\ Cardinality({d \in decls : d.kind = kind})
         = Cardinality({<<hist[i].mod, hist[i].name>> : i \in cs})

(* ------------------------------- claims -------------------------------- *)

\* C1: the first get-or-insert-function call on a name absent from the module
\* creates exactly one function declaration of that name and type and returns
\* its handle; every later call with the same module, name and type returns
\* the identical handle and creates nothing, so the module holds exactly one
\* function declaration of that name.
C1_FunctionIdempotent == Idempotent(FnCalls, "function")

C1_Witness ==
    \E i, j \in FnCalls :
        /\ i < j
        /\ hist[i].mod = hist[j].mod /\ hist[i].name = hist[j].name
        /\ hist[i].ty = hist[j].ty
        /\ hist[i].ret = hist[j].ret
        /\ Cardinality(decls) = 1

\* C2: the same lookup-or-create idempotence for get-or-insert-global and
\* global variables.
C2_GlobalIdempotent == Idempotent(GlobalCalls, "global")

C2_Witness ==
    \E i, j \in GlobalCalls :
        /\ i < j
        /\ hist[i].mod = hist[j].mod /\ hist[i].name = hist[j].name
        /\ hist[i].ty = hist[j].ty
        /\ hist[i].ret = hist[j].ret
        /\ Cardinality(decls) = 1

\* C3: every verify-function call that returns, returns true exactly when the
\* verifier found a violation, for every action and with or without a
\* message buffer.
C3_ResultIsBroken ==
    \A i \in VerifyCalls : hist[i].ret = Broken(hist[i].Fn)

C3_Witness ==
    \E i, j \in VerifyCalls :
        /\ hist[i].ret /\ hist[i].OutMessages
        /\ ~hist[j].ret /\ ~hist[j].OutMessages

\* C4: a verify-function call with the abort-process action on a broken
\* function terminates the process and never returns, with or without a
\* message buffer.
C4_AbortTerminates ==
    /\ [](\A i \in VerifyCalls :
            ~(hist[i].Action = "LLVMAbortProcessAction" /\ Broken(hist[i].Fn)))
    /\ [](terminated => ~ENABLED Next)
    /\ [](\A b \in BOOLEAN :
            (/\ frame.active
             /\ frame.Action = "LLVMAbortProcessAction"
             /\ Broken(frame.Fn)
             /\ frame.OutMessages = b) => <>terminated)

C4_Witness ==
    /\ terminated
    /\ ~frame.OutMessages
    /\ frame.Action = "LLVMAbortProcessAction"
    /\ Broken(frame.Fn)

\* C5: the process terminates only in a verify-function call with the
\* abort-process action that found a violation; every other verify-function
\* call returns, and every call of the other operations returns.
C5_OnlyAbortTerminates ==
    /\ [](terminated =>
            /\ frame.active
            /\ frame.Action = "LLVMAbortProcessAction"
            /\ frame.Result /\ Broken(frame.Fn))
    /\ [](pc # "idle" => frame.active)
    /\ []((frame.active /\ ~(frame.Action = "LLVMAbortProcessAction" /\ Broken(frame.Fn)))
            => <>(~frame.active /\ ~terminated))

C5_Witness ==
    /\ ~terminated
    /\ pc = "idle"
    /\ \E i \in VerifyCalls :
          hist[i].Action = "LLVMAbortProcessAction" /\ ~Broken(hist[i].Fn)
    /\ \E i \in VerifyCalls :
          hist[i].Action # "LLVMAbortProcessAction" /\ Broken(hist[i].Fn)

\* C6 as stated: with a message buffer requested, the collected diagnostics
\* are duplicated to stderr whatever the failure action.
C6_DuplicatedForEveryAction ==
    (pc \in {"L68", "L71", "L74"} /\ frame.OutMessages)
        => Emitted = frame.Fn.violations

\* C6 amended: with a message buffer requested, the collected diagnostics are
\* duplicated to stderr when the action is abort-process or print-message;
\* with the return-status action nothing is written to stderr.
C6_DuplicatedUnlessReturnStatus ==
    /\ (pc \in {"L68", "L71", "L74"} /\ frame.OutMessages)
          => Emitted = IF frame.Action # "LLVMReturnStatusAction"
                       THEN frame.Fn.violations
                       ELSE <<>>
    /\ \A i \in VerifyCalls :
          hist[i].OutMessages
             => hist[i].err = IF hist[i].Action # "LLVMReturnStatusAction"
                              THEN hist[i].Fn.violations
                              ELSE <<>>

C6_Witness ==
    \E i, j \in VerifyCalls :
        /\ hist[i].OutMessages /\ Broken(hist[i].Fn)
        /\ hist[i].Action = "LLVMPrintMessageAction"
        /\ hist[i].err = hist[i].Fn.violations
        /\ hist[j].OutMessages /\ Broken(hist[j].Fn)
        /\ hist[j].Action = "LLVMReturnStatusAction"
        /\ hist[j].err = <<>>

\* C7: for every verify-function call that returns and requested a message
\* buffer, the returned string is non-empty exactly when the returned boolean
\* is true: valid gives false and the empty string, broken gives true and a
\* non-empty diagnostic.
C7_MessageIffBroken ==
    \A i \in VerifyCalls :
        hist[i].OutMessages =>
            /\ hist[i].buf \in DOMAIN heap
            /\ (heap[hist[i].buf] # <<>>) <=> hist[i].ret
            /\ ~Broken(hist[i].Fn) => (~hist[i].ret /\ heap[hist[i].buf] = <<>>)
            /\ Broken(hist[i].Fn) => (hist[i].ret /\ heap[hist[i].buf] # <<>>)

C7_Witness ==
    \E i, j \in VerifyCalls :
        /\ hist[i].OutMessages /\ hist[i].ret /\ heap[hist[i].buf] # <<>>
        /\ hist[j].OutMessages /\ ~hist[j].ret /\ heap[hist[j].buf] = <<>>

\* C9: in a verify-function call with the abort-process action on a broken
\* function the verifier's diagnostics are on stderr before the process is
\* terminated, with and without a message buffer.
C9_DiagnosticsBeforeAbort ==
    /\ (pc = "L68" /\ frame.Action = "LLVMAbortProcessAction" /\ frame.Result)
          => (~terminated /\ Emitted = frame.Fn.violations /\ Emitted # <<>>)
    /\ terminated => Emitted = frame.Fn.violations \o FatalText

C9_Witness ==
    /\ terminated
    /\ frame.OutMessages
    /\ Len(frame.Fn.violations) = MaxDiagLen
    /\ IsPrefix(frame.Fn.violations, Emitted)

\* C10: every verify-function call that returns and requested a message buffer
\* stores exactly one newly allocated string holding the collected
\* diagnostics; a call without a buffer allocates none; between calls the
\* bridge keeps no buffer and no other state.
C10_OneBufferPerRequest ==
    /\ \A i \in VerifyCalls :
          IF hist[i].OutMessages
          THEN /\ hist[i].buf \in DOMAIN heap
               /\ heap[hist[i].buf] = hist[i].Fn.violations
               /\ \A j \in VerifyCalls : hist[j].buf = hist[i].buf => j = i
          ELSE hist[i].buf = 0
    /\ Len(heap) = Cardinality({i \in VerifyCalls : hist[i].OutMessages})
                     + (IF pc = "L74" /\ frame.OutMessages THEN 1 ELSE 0)
    /\ pc = "idle" => frame = NoFrame

C10_Witness ==
    /\ pc = "idle"
    /\ Len(heap) = 2
    /\ \E i, j \in VerifyCalls :
          /\ i < j /\ hist[i].buf = 1 /\ hist[j].buf = 2
          /\ Broken(hist[i].Fn) /\ ~Broken(hist[j].Fn)

====
